---- MODULE Spec2Model ----
(***************************************************************************)
(* Model of the ai-workshop repository:                                    *)
(*   - 01-solve-pde-example/Modulus_Anatomy.ipynb : the notebook, executed *)
(*     top to bottom ("Run All") in a Jupyter kernel whose namespace       *)
(*     survives from one run to the next until the kernel is restarted;    *)
(*   - CustomPDE.__init__ : the only in-repo function, as a pure operator; *)
(*   - submit : the Slurm batch script.                                    *)
(* Three specifications share the variables: Spec (the notebook),          *)
(* SpecPDE (CustomPDE applied to bounded inputs), SpecSubmit (the job).    *)
(***************************************************************************)
EXTENDS Integers, Sequences, FiniteSets, TLC

VARIABLES
    \* ---- notebook kernel ----
    pc,          \* index into Program of the next statement; 0 when no run is in progress
    status,      \* "idle" | "running" | "done" | "error" : state of the current Run All
    runs,        \* number of Run All started so far
    defined,     \* names bound in the kernel namespace
    cfg,         \* value of cfg
    eq,          \* value of eq.equations
    domain,      \* the Domain object bound to domain
    slv,         \* the Solver object bound to slv
    handlers,    \* handlers of the root logger (object ids)
    nextId,      \* next fresh object id
    logExecs,    \* executions of the logging cell since the kernel started
    logCopies,   \* copies written of the last log record the solver emitted
    solveState,  \* "not_started" | "running" | "returned" in the current run
    files,       \* result files on disk
    data,        \* what np.load returned in the current run
    plotted,     \* keys of data the plot statements read
    trace,       \* statements completed in the current run, in order
    \* ---- CustomPDE calls ----
    pdeCalls,    \* set of [f, equations, stmts] of the calls made
    \* ---- submit job ----
    jpc,         \* index into Script of the next command; 0 before the job starts
    lastStatus,  \* $? of the shell
    failedCmds,  \* commands of the script that exited non-zero
    srunCount,   \* number of srun invocations
    launching,   \* TRUE while srun is starting or waiting for its processes
    procs,       \* launched processes: sequence of [slot, gpu]
    exits,       \* exit codes of the processes that have ended, in rank order
    shared,      \* TRUE once a process had to share a task slot or a GPU
    jobExit      \* exit status of the job; -1 while it has not ended

nbVars == <<pc, status, runs, defined, cfg, eq, domain, slv, handlers, nextId,
            logExecs, logCopies, solveState, files, data, plotted, trace>>
pdeVars == <<pdeCalls>>
subVars == <<jpc, lastStatus, failedCmds, srunCount, launching, procs, exits, shared, jobExit>>
vars == <<nbVars, pdeVars, subVars>>

(***************************************************************************)
(* CustomPDE.__init__                                                      *)
(***************************************************************************)

\* A Python value: its exact type, its printed value, and (for an applied
\* sympy function) its arguments.
PyVal(t, v) == [type |-> t, val |-> v, args |-> <<>>]

\* Direct base class of each modelled type ("object" where it has none modelled).
BaseOf(t) ==
    CASE t = "numpy.float64" -> "float"
      [] OTHER -> "object"

\* isinstance(v, t)
IsInstance(v, t) == v.type = t \/ BaseOf(v.type) = t

\* input_variables = {"x": x}; *input_variables unpacks the keys
InputVariables == <<"x">>

\* sympy Function(name)(*args)
SymFunction(name, args) == [type |-> "sympy.AppliedUndef", val |-> name, args |-> args]

\* sympy Number(v): Float for a float, Integer for an int
SymNumber(v) ==
    [type |-> IF v.type = "float" THEN "sympy.Float" ELSE "sympy.Integer",
     val |-> v.val, args |-> <<>>]

\* source term, trusting isinstance instead of the exact type
SourceTermIsInstance(f) ==
    IF IsInstance(f, "str") THEN SymFunction(f.val, InputVariables)
    ELSE IF IsInstance(f, "float") \/ IsInstance(f, "int") THEN SymNumber(f)
    ELSE f

\* lines 159-162: the source term after the type dispatch
SourceTerm(f) ==
    IF f.type = "str" THEN SymFunction(f.val, InputVariables)
    ELSE IF f.type \in {"float", "int"} THEN SymNumber(f)
    ELSE f

\* statements executed, dispatching on the value too (a zero source term is dropped)
InitStmtsByValue(f) ==
    <<"x = Symbol", "input_variables = {}", "u = Function", "if type(f) is str">>
    \o (IF f.type = "str" THEN <<"f = Function(f)">>
        ELSE <<"elif type(f) in [float, int]">>
             \o (IF f.type \in {"float", "int"} /\ f.val \notin {"0", "0.0"}
                 THEN <<"f = Number(f)">> ELSE <<>>))
    \o <<"self.equations = {}", "self.equations[custom_pde] =">>

\* lines 150-168: the statements CustomPDE.__init__ executes for f, in order
InitStmts(f) ==
    <<"x = Symbol", "input_variables = {}", "u = Function", "if type(f) is str">>
    \o (IF f.type = "str" THEN <<"f = Function(f)">>
        ELSE <<"elif type(f) in [float, int]">>
             \o (IF f.type \in {"float", "int"} THEN <<"f = Number(f)">> ELSE <<>>))
    \o <<"self.equations = {}", "self.equations[custom_pde] =">>

\* u.diff(x, 2) - f
Residual(f) ==
    [op |-> "Sub",
     lhs |-> [op |-> "Derivative", of |-> SymFunction("u", InputVariables),
              wrt |-> "x", order |-> 2],
     rhs |-> SourceTerm(f)]

\* lines 165-168: self.equations after the constructor
CustomPDE(f) == [k \in {"custom_pde"} |-> Residual(f)]

\* The source terms the constructor is applied to: values sympy can subtract
\* from an expression (numpy.float64 is a subclass of float, numpy.int64 is no
\* subclass of int).
PDEInputs ==
    {PyVal("str", "f"), PyVal("str", "g"), PyVal("float", "1.0"), PyVal("float", "0.0"),
     PyVal("int", "1"), PyVal("int", "0"), PyVal("numpy.float64", "1.0"),
     PyVal("numpy.int64", "1"), PyVal("sympy.Symbol", "a"), PyVal("sympy.Float", "1.0")}

MaxCalls == 3

PDEIdle == pdeCalls = {}

\* one call CustomPDE(f)
Construct ==
    \E f \in PDEInputs :
        /\ UNCHANGED <<nbVars, subVars>>
        /\ Cardinality(pdeCalls) < MaxCalls
        /\ pdeCalls' = pdeCalls \cup
              {[f |-> f, equations |-> CustomPDE(f), stmts |-> InitStmts(f)]}

(***************************************************************************)
(* The notebook                                                            *)
(***************************************************************************)

MaxRuns == 3

\* The code cells' statements in notebook order.
ProgramSolverFirst ==
    <<"compose", "geometry", "sample", "class CustomPDE", "nodes", "Domain()",
      "addHandler", "Solver()", "solve()",
      "add bc", "add interior", "add inferencer", "np.load", "plot">>

Program ==
    <<"compose", "geometry", "sample", "class CustomPDE", "nodes", "Domain()",
      "add bc", "add interior", "add inferencer", "addHandler", "Solver()", "solve()",
      "np.load", "plot">>

\* The step of the workflow a statement belongs to ("" for the logging cell,
\* which is no step of the workflow).
StepOf(stmt) ==
    CASE stmt = "compose" -> "load config"
      [] stmt \in {"geometry", "sample"} -> "build geometry"
      [] stmt \in {"class CustomPDE", "nodes"} -> "build nodes"
      [] stmt \in {"Domain()", "add bc", "add interior", "add inferencer"} -> "assemble domain"
      [] stmt \in {"Solver()", "solve()"} -> "run solver"
      [] stmt = "np.load" -> "load results"
      [] stmt = "plot" -> "plot"
      [] OTHER -> ""

\* Names a statement reads from the kernel namespace (NameError when one is unbound).
Needs(stmt) ==
    CASE stmt = "sample" -> {"geo"}
      [] stmt = "nodes" -> {"CustomPDE"}
      [] stmt = "add bc" -> {"nodes", "geo", "domain"}
      [] stmt = "add interior" -> {"nodes", "geo", "domain", "x"}
      [] stmt = "add inferencer" -> {"nodes", "domain"}
      [] stmt = "Solver()" -> {"cfg", "domain"}
      [] stmt = "solve()" -> {"slv"}
      [] stmt = "plot" -> {"data"}
      [] OTHER -> {}

\* Names a statement binds.
Binds(stmt) ==
    CASE stmt = "compose" -> {"cfg"}
      [] stmt = "geometry" -> {"x", "geo"}
      [] stmt = "sample" -> {"samples"}
      [] stmt = "class CustomPDE" -> {"CustomPDE"}
      [] stmt = "nodes" -> {"eq", "u_net", "nodes"}
      [] stmt = "Domain()" -> {"domain"}
      [] stmt = "add bc" -> {"bc"}
      [] stmt = "add interior" -> {"interior"}
      [] stmt = "add inferencer" -> {"inference"}
      [] stmt = "Solver()" -> {"slv"}
      [] stmt = "np.load" -> {"data"}
      [] stmt = "plot" -> {"x", "pred_u", "x_np", "u_np"}
      [] OTHER -> {}

\* str.split(",") on a string given as its tokens
SplitComma(s) == SelectSeq(s, LAMBDA t : t # ",")

Range(s) == {s[i] : i \in DOMAIN s}

NoCfg == [network_dir |-> "", save_filetypes |-> <<>>, max_steps |-> 0, rec_results_freq |-> 0]

\* compose(config_path="./", config_name="config"): config.yaml over modulus_default
ComposedCfg ==
    [network_dir |-> ".", save_filetypes |-> <<"vtk", ",", "npz">>,
     max_steps |-> 5000, rec_results_freq |-> 1000]

\* cfg when the network_dir assignment of the first cell is left out
CfgWithoutNetworkDir == ComposedCfg

\* cfg after the first code cell: compose(...), then cfg.network_dir = 'outputs'
LoadedCfg == [ComposedCfg EXCEPT !.network_dir = "outputs"]

\* the argument of the notebook's CustomPDE(f=1.0)
NotebookF == PyVal("float", "1.0")

\* outputs the nodes list can compute: one per equation, plus the network's "u"
NodeOutputs(equations) == DOMAIN equations \cup {"u"}

BcConstraint == [kind |-> "PointwiseBoundaryConstraint", outvar |-> [k \in {"u"} |-> 0]]

InteriorConstraint ==
    [kind |-> "PointwiseInteriorConstraint", outvar |-> [k \in {"custom_pde"} |-> 0]]

\* domain.add_constraint(interior, "bc"): the name of the cell's first constraint reused
InteriorNameCopied == "bc"

\* domain.add_constraint(interior, "interior")
InteriorName == "interior"

Inferencer == [invar |-> {"x"}, output_names |-> {"u"}]

\* d[name] = v
DictSet(d, name, v) == [k \in DOMAIN d \cup {name} |-> IF k = name THEN v ELSE d[k]]

EmptyDict == [k \in {} |-> 0]

NoDomain == [id |-> 0, constraints |-> EmptyDict, inferencers |-> EmptyDict]

NoSolver == [cfg |-> NoCfg, domain |-> 0]

NoPath == [dirs |-> <<>>, stem |-> "", ext |-> ""]

NoData == [path |-> NoPath, keys |-> {}, run |-> 0]

\* a path without its "." components
NormPath(p) == [p EXCEPT !.dirs = SelectSeq(p.dirs, LAMBDA c : c # ".")]

\* where the solver writes the results of inferencer name in format ext
InferencerFile(network_dir, name, ext) ==
    NormPath([dirs |-> <<network_dir, "inferencers">>, stem |-> name, ext |-> ext])

\* './outputs/inferencers/inf_data.npz'
LoadLiteral == [dirs |-> <<".", "outputs", "inferencers">>, stem |-> "inf_data", ext |-> "npz"]

\* data['x'], data['u']
PlotKeys == {"x", "u"}

\* logging.StreamHandler() bound once and reused
NewHandlerShared(id) == 0

\* logging.StreamHandler(): a new object at each execution
NewHandler(id) == id

\* Logger.addHandler(h)
AddHandler(hs, h) == IF h \in hs THEN hs ELSE hs \cup {h}

NbInit ==
    /\ pc = 0
    /\ status = "idle"
    /\ runs = 0
    /\ defined = {}
    /\ cfg = NoCfg
    /\ eq = EmptyDict
    /\ domain = NoDomain
    /\ slv = NoSolver
    /\ handlers = {}
    /\ nextId = 1
    /\ logExecs = 0
    /\ logCopies = 0
    /\ solveState = "not_started"
    /\ files = {}
    /\ data = NoData
    /\ plotted = {}
    /\ trace = <<>>

\* The statement at pc is stmt and can run.
At(stmt) ==
    /\ status = "running"
    /\ pc \in DOMAIN Program
    /\ Program[pc] = stmt
    /\ Needs(stmt) \subseteq defined

\* The statement at pc completes: bind its names, note its step, go to the next.
Advance(stmt) ==
    /\ defined' = defined \cup Binds(stmt)
    /\ trace' = Append(trace, stmt)
    /\ IF pc = Len(Program)
       THEN pc' = 0 /\ status' = "done"
       ELSE pc' = pc + 1 /\ status' = "running"

\* Kernel > Restart & Run All / Run All
RunAll ==
    /\ UNCHANGED <<pdeVars, subVars>>
    /\ status # "running"
    /\ runs < MaxRuns
    /\ runs' = runs + 1
    /\ pc' = 1
    /\ status' = "running"
    /\ trace' = <<>>
    /\ solveState' = "not_started"
    /\ data' = NoData
    /\ plotted' = {}
    /\ UNCHANGED <<defined, cfg, eq, domain, slv, handlers, nextId, logExecs, logCopies, files>>

\* Kernel > Restart: the namespace and the logger are lost, the disk is not
RestartKernel ==
    /\ UNCHANGED <<pdeVars, subVars>>
    /\ status \in {"done", "error"}
    /\ pc' = 0
    /\ status' = "idle"
    /\ defined' = {}
    /\ cfg' = NoCfg
    /\ eq' = EmptyDict
    /\ domain' = NoDomain
    /\ slv' = NoSolver
    /\ handlers' = {}
    /\ nextId' = 1
    /\ logExecs' = 0
    /\ logCopies' = 0
    /\ solveState' = "not_started"
    /\ data' = NoData
    /\ plotted' = {}
    /\ trace' = <<>>
    /\ UNCHANGED <<runs, files>>

\* The statement at pc raises: Run All stops at the failing cell.
Raise ==
    /\ UNCHANGED <<pdeVars, subVars>>
    /\ status = "running"
    /\ pc \in DOMAIN Program
    /\ pc' = 0
    /\ status' = "error"
    /\ UNCHANGED <<runs, defined, cfg, eq, domain, slv, handlers, nextId, logExecs,
                   logCopies, solveState, files, data, plotted, trace>>

\* cell 1: cfg = compose(...); cfg.network_dir = 'outputs'
LoadConfig ==
    /\ UNCHANGED <<pdeVars, subVars>>
    /\ At("compose")
    /\ cfg' = LoadedCfg
    /\ Advance("compose")
    /\ UNCHANGED <<runs, eq, domain, slv, handlers, nextId, logExecs, logCopies,
                   solveState, files, data, plotted>>

\* cell 2: x = Symbol("x"); geo = Line1D(0, 1)
DefineGeometry ==
    /\ UNCHANGED <<pdeVars, subVars>>
    /\ At("geometry")
    /\ Advance("geometry")
    /\ UNCHANGED <<runs, cfg, eq, domain, slv, handlers, nextId, logExecs, logCopies,
                   solveState, files, data, plotted>>

\* cell 3: geo.sample_boundary(5); geo.sample_interior(5)
SampleGeometry ==
    /\ UNCHANGED <<pdeVars, subVars>>
    /\ At("sample")
    /\ Advance("sample")
    /\ UNCHANGED <<runs, cfg, eq, domain, slv, handlers, nextId, logExecs, logCopies,
                   solveState, files, data, plotted>>

\* cell 4: class CustomPDE(PDE)
DefinePDE ==
    /\ UNCHANGED <<pdeVars, subVars>>
    /\ At("class CustomPDE")
    /\ Advance("class CustomPDE")
    /\ UNCHANGED <<runs, cfg, eq, domain, slv, handlers, nextId, logExecs, logCopies,
                   solveState, files, data, plotted>>

\* cell 5: eq = CustomPDE(f=1.0); u_net = ...; nodes = eq.make_nodes() + [...]
CreateNodes ==
    /\ UNCHANGED <<pdeVars, subVars>>
    /\ At("nodes")
    /\ eq' = CustomPDE(NotebookF)
    /\ Advance("nodes")
    /\ UNCHANGED <<runs, cfg, domain, slv, handlers, nextId, logExecs, logCopies,
                   solveState, files, data, plotted>>

\* cell 6: domain = Domain()
CreateDomain ==
    /\ UNCHANGED <<pdeVars, subVars>>
    /\ At("Domain()")
    /\ domain' = [id |-> nextId, constraints |-> EmptyDict, inferencers |-> EmptyDict]
    /\ nextId' = nextId + 1
    /\ Advance("Domain()")
    /\ UNCHANGED <<runs, cfg, eq, slv, handlers, logExecs, logCopies,
                   solveState, files, data, plotted>>

\* cell 7, first half: bc = PointwiseBoundaryConstraint(...); domain.add_constraint(bc, "bc")
AddBC ==
    /\ UNCHANGED <<pdeVars, subVars>>
    /\ At("add bc")
    /\ DOMAIN BcConstraint.outvar \subseteq NodeOutputs(eq)
    /\ domain' = [domain EXCEPT !.constraints = DictSet(@, "bc", BcConstraint)]
    /\ Advance("add bc")
    /\ UNCHANGED <<runs, cfg, eq, slv, handlers, nextId, logExecs, logCopies,
                   solveState, files, data, plotted>>

\* cell 7, second half: interior = PointwiseInteriorConstraint(...);
\* domain.add_constraint(interior, "interior")
AddInterior ==
    /\ UNCHANGED <<pdeVars, subVars>>
    /\ At("add interior")
    /\ DOMAIN InteriorConstraint.outvar \subseteq NodeOutputs(eq)
    /\ domain' = [domain EXCEPT !.constraints = DictSet(@, InteriorName, InteriorConstraint)]
    /\ Advance("add interior")
    /\ UNCHANGED <<runs, cfg, eq, slv, handlers, nextId, logExecs, logCopies,
                   solveState, files, data, plotted>>

\* cell 8: inference = PointwiseInferencer(...); domain.add_inferencer(inference, "inf_data")
AddInferencer ==
    /\ UNCHANGED <<pdeVars, subVars>>
    /\ At("add inferencer")
    /\ Inferencer.output_names \subseteq NodeOutputs(eq)
    /\ domain' = [domain EXCEPT !.inferencers = DictSet(@, "inf_data", Inferencer)]
    /\ Advance("add inferencer")
    /\ UNCHANGED <<runs, cfg, eq, slv, handlers, nextId, logExecs, logCopies,
                   solveState, files, data, plotted>>

\* cell 9: logging.getLogger().addHandler(logging.StreamHandler())
AddLogHandler ==
    /\ UNCHANGED <<pdeVars, subVars>>
    /\ At("addHandler")
    /\ handlers' = AddHandler(handlers, NewHandler(nextId))
    /\ nextId' = nextId + 1
    /\ logExecs' = logExecs + 1
    /\ Advance("addHandler")
    /\ UNCHANGED <<runs, cfg, eq, domain, slv, logCopies, solveState, files, data, plotted>>

\* cell 10: slv = Solver(cfg, domain)
MakeSolver ==
    /\ UNCHANGED <<pdeVars, subVars>>
    /\ At("Solver()")
    /\ slv' = [cfg |-> cfg, domain |-> domain.id]
    /\ Advance("Solver()")
    /\ UNCHANGED <<runs, cfg, eq, domain, handlers, nextId, logExecs, logCopies,
                   solveState, files, data, plotted>>

\* the files the solver writes for the inferencers of its domain
ResultFiles ==
    {[path |-> InferencerFile(slv.cfg.network_dir, n, e),
      keys |-> domain.inferencers[n].invar \cup domain.inferencers[n].output_names,
      run |-> runs] :
        n \in DOMAIN domain.inferencers, e \in Range(SplitComma(slv.cfg.save_filetypes))}

\* cell 10: slv.solve() is entered; the solver logs through the root logger
SolveBegin ==
    /\ UNCHANGED <<pdeVars, subVars>>
    /\ At("solve()")
    /\ solveState = "not_started"
    /\ slv.domain = domain.id
    /\ solveState' = "running"
    /\ logCopies' = Cardinality(handlers)
    /\ UNCHANGED <<pc, status, runs, defined, cfg, eq, domain, slv, handlers, nextId,
                   logExecs, files, data, plotted, trace>>

\* cell 10: slv.solve() returns, the inferencers' results recorded on disk
SolveReturn ==
    /\ UNCHANGED <<pdeVars, subVars>>
    /\ At("solve()")
    /\ solveState = "running"
    /\ solveState' = "returned"
    /\ files' = {f \in files : f.path \notin {g.path : g \in ResultFiles}} \cup ResultFiles
    /\ Advance("solve()")
    /\ UNCHANGED <<runs, cfg, eq, domain, slv, handlers, nextId, logExecs, logCopies,
                   data, plotted>>

\* cell 11: data = np.load('./outputs/inferencers/inf_data.npz', ...)
LoadResults ==
    /\ UNCHANGED <<pdeVars, subVars>>
    /\ At("np.load")
    /\ \E f \in files :
          /\ f.path = NormPath(LoadLiteral)
          /\ data' = f
    /\ Advance("np.load")
    /\ UNCHANGED <<runs, cfg, eq, domain, slv, handlers, nextId, logExecs, logCopies,
                   solveState, files, plotted>>

\* cell 11: x = data['x']; pred_u = data['u']; plt.plot(...); plt.show()
Plot ==
    /\ UNCHANGED <<pdeVars, subVars>>
    /\ At("plot")
    /\ PlotKeys \subseteq data.keys
    /\ plotted' = PlotKeys
    /\ Advance("plot")
    /\ UNCHANGED <<runs, cfg, eq, domain, slv, handlers, nextId, logExecs, logCopies,
                   solveState, files, data>>

NbNext ==
    \/ RunAll
    \/ RestartKernel
    \/ Raise
    \/ LoadConfig
    \/ DefineGeometry
    \/ SampleGeometry
    \/ DefinePDE
    \/ CreateNodes
    \/ CreateDomain
    \/ AddBC
    \/ AddInterior
    \/ AddInferencer
    \/ AddLogHandler
    \/ MakeSolver
    \/ SolveBegin
    \/ SolveReturn
    \/ LoadResults
    \/ Plot

(***************************************************************************)
(* The submit script                                                       *)
(***************************************************************************)

\* #SBATCH --nodes=1
Nodes == 1

\* #SBATCH --ntasks=8
Ntasks == 8

\* #SBATCH --gpus=a100:8
Gpus == 8

\* srun -n 9: one process more than the tasks requested
SrunNOver == Ntasks + 1

\* srun --mpi=none -n 8
SrunN == 8

\* the script with the commented-out srun line active too
ScriptBothSrun == <<"module purge", "module load ufrc modulus", "srun", "srun">>

\* The script sets no errexit option: a failed command does not end it.
Errexit == FALSE

\* The commands of the script, in order (comments and directives are no commands).
Script == <<"module purge", "module load ufrc modulus", "srun">>

\* exit statuses a command or a launched process can end with
ExitCodes == {0, 1}

SubIdle ==
    /\ jpc = 0
    /\ lastStatus = 0
    /\ failedCmds = {}
    /\ srunCount = 0
    /\ launching = FALSE
    /\ procs = <<>>
    /\ exits = <<>>
    /\ shared = FALSE
    /\ jobExit = -1

SeqMax(s) == IF s = <<>> THEN 0 ELSE CHOOSE m \in Range(s) : \A v \in Range(s) : v <= m

SetMin(S) == CHOOSE m \in S : \A v \in S : m <= v

\* the command at jpc ended with status rc: bash goes on to the next command
\* whatever rc is, unless errexit is set
AfterCommand(cmd, rc) ==
    /\ lastStatus' = rc
    /\ failedCmds' = IF rc # 0 THEN failedCmds \cup {cmd} ELSE failedCmds
    /\ jpc' = IF Errexit /\ rc # 0 THEN Len(Script) + 1 ELSE jpc + 1

\* Slurm grants the allocation and starts the script
JobStart ==
    /\ UNCHANGED <<nbVars, pdeVars>>
    /\ jpc = 0
    /\ jpc' = 1
    /\ UNCHANGED <<lastStatus, failedCmds, srunCount, launching, procs, exits, shared, jobExit>>

\* module purge
ModulePurge ==
    /\ UNCHANGED <<nbVars, pdeVars>>
    /\ jpc \in DOMAIN Script
    /\ Script[jpc] = "module purge"
    /\ \E rc \in ExitCodes : AfterCommand("module purge", rc)
    /\ UNCHANGED <<srunCount, launching, procs, exits, shared, jobExit>>

\* module load ufrc modulus
ModuleLoad ==
    /\ UNCHANGED <<nbVars, pdeVars>>
    /\ jpc \in DOMAIN Script
    /\ Script[jpc] = "module load ufrc modulus"
    /\ \E rc \in ExitCodes : AfterCommand("module load ufrc modulus", rc)
    /\ UNCHANGED <<srunCount, launching, procs, exits, shared, jobExit>>

\* srun ... python lennard_jones_system.py is invoked
SrunStart ==
    /\ UNCHANGED <<nbVars, pdeVars>>
    /\ jpc \in DOMAIN Script
    /\ Script[jpc] = "srun"
    /\ ~launching
    /\ launching' = TRUE
    /\ srunCount' = srunCount + 1
    /\ procs' = <<>>
    /\ exits' = <<>>
    /\ UNCHANGED <<jpc, lastStatus, failedCmds, shared, jobExit>>

FreeSlots == (1 .. Nodes * Ntasks) \ {procs[i].slot : i \in DOMAIN procs}

FreeGpus == (1 .. Gpus) \ {procs[i].gpu : i \in DOMAIN procs}

\* srun starts its next process on a free task slot and a free GPU of the
\* allocation, or on occupied ones when none is free
LaunchTask ==
    /\ UNCHANGED <<nbVars, pdeVars>>
    /\ launching
    /\ Len(procs) < SrunN
    /\ procs' = Append(procs, [slot |-> IF FreeSlots # {} THEN SetMin(FreeSlots) ELSE 1,
                               gpu |-> IF FreeGpus # {} THEN SetMin(FreeGpus) ELSE 1])
    /\ shared' = (shared \/ FreeSlots = {} \/ FreeGpus = {})
    /\ UNCHANGED <<jpc, lastStatus, failedCmds, srunCount, launching, exits, jobExit>>

\* a launched process ends
TaskExit ==
    /\ UNCHANGED <<nbVars, pdeVars>>
    /\ launching
    /\ Len(procs) = SrunN
    /\ Len(exits) < Len(procs)
    /\ \E rc \in ExitCodes : exits' = Append(exits, rc)
    /\ UNCHANGED <<jpc, lastStatus, failedCmds, srunCount, launching, procs, shared, jobExit>>

\* srun returns the highest exit status of its processes
SrunReturn ==
    /\ UNCHANGED <<nbVars, pdeVars>>
    /\ launching
    /\ Len(procs) = SrunN
    /\ Len(exits) = Len(procs)
    /\ launching' = FALSE
    /\ AfterCommand("srun", SeqMax(exits))
    /\ UNCHANGED <<srunCount, procs, exits, shared, jobExit>>

\* the script ends: the job's exit status is that of the last command run
ScriptExit ==
    /\ UNCHANGED <<nbVars, pdeVars>>
    /\ jpc = Len(Script) + 1
    /\ jobExit = -1
    /\ jobExit' = lastStatus
    /\ UNCHANGED <<jpc, lastStatus, failedCmds, srunCount, launching, procs, exits, shared>>

SubNext ==
    \/ JobStart
    \/ ModulePurge
    \/ ModuleLoad
    \/ SrunStart
    \/ LaunchTask
    \/ TaskExit
    \/ SrunReturn
    \/ ScriptExit

(***************************************************************************)
(* Specifications                                                          *)
(***************************************************************************)

Init == NbInit /\ PDEIdle /\ SubIdle

Next == NbNext

\* the notebook
Spec == Init /\ [][Next]_vars

\* CustomPDE applied to the inputs of PDEInputs
SpecPDE == Init /\ [][Construct]_vars

\* the batch job
SpecSubmit == Init /\ [][SubNext]_vars

(***************************************************************************)
(* Properties                                                              *)
(***************************************************************************)

IsPrefix(s, t) == Len(s) <= Len(t) /\ \A i \in DOMAIN s : s[i] = t[i]

\* the workflow steps of a statement sequence, each maximal block of statements
\* of one step counted once, the logging cell skipped
RECURSIVE Steps(_)
Steps(t) ==
    IF t = <<>> THEN <<>>
    ELSE LET before == Steps(SubSeq(t, 1, Len(t) - 1))
             step == StepOf(t[Len(t)])
         IN IF step = "" \/ (before # <<>> /\ before[Len(before)] = step)
            THEN before ELSE Append(before, step)

ClaimedOrder ==
    <<"load config", "build geometry", "build nodes", "assemble domain", "run solver",
      "load results", "plot">>

\* C1: in a top-to-bottom run the workflow steps happen in the order load config,
\* build geometry, build nodes, assemble domain, run solver, load results, plot,
\* no statement runs twice, a completed run has made every step exactly once, the
\* solver is not started before the config is loaded and the domain assembled,
\* and the result archive is not read before slv.solve() has returned.
C1_LinearWorkflow ==
    /\ IsPrefix(Steps(trace), ClaimedOrder)
    /\ \A i, j \in DOMAIN trace : trace[i] = trace[j] => i = j
    /\ status = "done" => Steps(trace) = ClaimedOrder
    /\ solveState # "not_started" =>
          /\ "compose" \in Range(trace)
          /\ slv.cfg = cfg
          /\ {"Domain()", "add bc", "add interior", "add inferencer"} \subseteq Range(trace)
          /\ slv.domain = domain.id
          /\ DOMAIN domain.constraints # {}
    /\ data # NoData => solveState = "returned"

C1_Witness == status = "done" /\ plotted = PlotKeys /\ runs = 2

\* C4: from the construction of the Solver to the end of slv.solve() (and of the
\* run) the domain holds exactly the constraints "bc" (u = 0) and "interior"
\* (custom_pde = 0) and exactly the inferencer "inf_data".
C4_DomainPopulated ==
    "Solver()" \in Range(trace) =>
        /\ slv.domain = domain.id
        /\ DOMAIN domain.constraints = {"bc", "interior"}
        /\ domain.constraints["bc"] = BcConstraint
        /\ BcConstraint.outvar = [k \in {"u"} |-> 0]
        /\ domain.constraints["interior"].kind = "PointwiseInteriorConstraint"
        /\ domain.constraints["interior"].outvar = [k \in {"custom_pde"} |-> 0]
        /\ DOMAIN domain.inferencers = {"inf_data"}

C4_Witness == "Solver()" \in Range(trace) /\ solveState = "returned"

\* C5: the archive the plot step reads is <network_dir>/inferencers/<name>.npz of
\* the inferencer "inf_data" with network_dir = 'outputs', "npz" is among the
\* configured save_filetypes, and the variables read from it ('x' and 'u') are
\* invar keys or output names of that inferencer.
C5_ResultArchive ==
    /\ "cfg" \in defined =>
          /\ cfg.network_dir = "outputs"
          /\ "npz" \in Range(SplitComma(cfg.save_filetypes))
    /\ data # NoData =>
          /\ DOMAIN domain.inferencers = {"inf_data"}
          /\ data.path = InferencerFile(cfg.network_dir, "inf_data", "npz")
          /\ data.path = [dirs |-> <<"outputs", "inferencers">>, stem |-> "inf_data", ext |-> "npz"]
    /\ plotted # {} =>
          /\ plotted = {"x", "u"}
          /\ plotted \subseteq domain.inferencers["inf_data"].invar
                               \cup domain.inferencers["inf_data"].output_names

C5_Witness == status = "done" /\ plotted # {} /\ data # NoData

\* C7: the logging cell is not idempotent: after n executions the root logger
\* holds n added handlers and a log record is written n times; one handler
\* exists exactly when the cell ran exactly once.
C7_HandlersAccumulate ==
    /\ Cardinality(handlers) = logExecs
    /\ solveState # "not_started" => logCopies = logExecs
    /\ Cardinality(handlers) = 1 <=> logExecs = 1

C7_Witness == logExecs = 2 /\ solveState = "running" /\ logCopies = 2

\* the branch of the type dispatch a source term takes
TypeClass(f) ==
    IF f.type = "str" THEN "str" ELSE IF f.type \in {"float", "int"} THEN "number" ELSE "other"

\* C6 as stated: the constructor executes the same statements for every input.
C6_NoBranching == \A c1, c2 \in pdeCalls : c1.stmts = c2.stmts

\* C6 amended: CustomPDE.__init__ branches, and on the exact type of f alone:
\* two calls execute the same statements exactly when their arguments are both
\* str, both float or int, or both of another type; the value never matters.
C6_BranchOnTypeOnly ==
    \A c1, c2 \in pdeCalls : (TypeClass(c1.f) = TypeClass(c2.f)) <=> (c1.stmts = c2.stmts)

C6_Witness ==
    \E c1, c2, c3 \in pdeCalls :
        /\ c1.f # c2.f /\ c1.f.type = "float" /\ c2.f.type = "float"
        /\ c3.f.type = "str"

\* C8: CustomPDE(f) turns a str into a function named f of x, an exact float or
\* int into a number, leaves any other type unchanged, and always defines the
\* single equation "custom_pde" = u_xx - f, the key the interior constraint uses.
C8_SourceTermNormalised ==
    \A c \in pdeCalls :
        LET e == c.equations["custom_pde"] IN
        /\ DOMAIN c.equations = {"custom_pde"}
        /\ DOMAIN InteriorConstraint.outvar = DOMAIN c.equations
        /\ e.op = "Sub"
        /\ e.lhs = [op |-> "Derivative", of |-> SymFunction("u", <<"x">>),
                    wrt |-> "x", order |-> 2]
        /\ c.f.type = "str" =>
              e.rhs = [type |-> "sympy.AppliedUndef", val |-> c.f.val, args |-> <<"x">>]
        /\ c.f.type = "float" =>
              e.rhs = [type |-> "sympy.Float", val |-> c.f.val, args |-> <<>>]
        /\ c.f.type = "int" =>
              e.rhs = [type |-> "sympy.Integer", val |-> c.f.val, args |-> <<>>]
        /\ c.f.type \notin {"str", "float", "int"} => e.rhs = c.f

C8_Witness ==
    \E c1, c2, c3 \in pdeCalls :
        c1.f.type = "str" /\ c2.f.type = "float" /\ c3.f.type = "numpy.float64"

\* C2: the script launches srun once and never again; when a launched process
\* ends with a failure status the job ends with a failure status.
C2_SingleLaunch ==
    /\ srunCount <= 1
    /\ jobExit # -1 =>
          /\ srunCount = 1
          /\ (\E i \in DOMAIN exits : exits[i] # 0) => jobExit # 0

C2_Witness == jobExit # -1 /\ srunCount = 1 /\ (\E i \in DOMAIN exits : exits[i] # 0)

\* C3: when any command of the script has failed, the job does not end with a
\* success status.
C3_FailurePropagates == (jobExit # -1 /\ failedCmds # {}) => jobExit # 0

\* C9: srun starts as many processes as tasks and GPUs were requested on the
\* one node, and every launched process has a task slot and a GPU of its own.
C9_NoOversubscription ==
    /\ Nodes = 1
    /\ ~shared
    /\ Len(procs) <= Ntasks /\ Len(procs) <= Gpus
    /\ \A i, j \in DOMAIN procs :
          i # j => procs[i].slot # procs[j].slot /\ procs[i].gpu # procs[j].gpu
    /\ (launching /\ exits # <<>>) => Len(procs) = Ntasks /\ Len(procs) = Gpus

C9_Witness == launching /\ Len(procs) = SrunN /\ Len(exits) = SrunN

====
